---------------------------- MODULE Spec2Model ----------------------------
(***************************************************************************)
(* hpp-intersect: the mesh-intersection and shape-fitting pipeline of      *)
(* src/src/intersect.cc.                                                    *)
(*                                                                         *)
(* Numbers.  The C++ code works on doubles.  Here mesh vertices are drawn  *)
(* from an integer grid, so that normals and plane offsets are integers,   *)
(* and every derived quantity is an exact rational <<n, d>> (d > 0, lowest *)
(* terms).  A division by zero, which IEEE arithmetic answers with an      *)
(* infinity or a NaN, is the value NonFinite; it absorbs every later       *)
(* operation (see LinePoint for why that is what the code computes).        *)
(***************************************************************************)
EXTENDS Integers, Sequences, FiniteSets, TLC

VARIABLES
    pc,         \* position of the caller: which function runs / has returned
    rom,        \* fcl::CollisionObject of the ROM (vertices, tri_indices, transform)
    affordance, \* fcl::CollisionObject of the affordance
    point,      \* query point of is_inside
    ineq,       \* Inequality (A_, b_, N_, V_) built by fcl2inequalities
    inside,     \* value returned by is_inside
    romTri,     \* TrianglePoints rom of TriangleIntersection
    affTri,     \* TrianglePoints aff of TriangleIntersection
    ti,         \* what TriangleIntersection computed and returned
    colliding,  \* result.isCollision () of fcl::collide
    gip,        \* what getIntersectionPoints computed and returned
    points,     \* std::vector<Eigen::Vector3d> handed to the fit stage
    params,     \* conic parameter vector (Eigen::VectorXd)
    fit         \* outcome of the last fit-stage call

vars == <<pc, rom, affordance, point, ineq, inside, romTri, affTri, ti,
          colliding, gip, points, params, fit>>

-----------------------------------------------------------------------------
(* Bounds of the model.                                                     *)

\* query points of is_inside have coordinates in -1 .. MaxCoord
MaxCoord == 3
\* edge lengths of the ROM meshes are in 2 .. MaxSize
MaxSize == 3
\* the first vertex of the affordance triangle handed to TriangleIntersection
\* has coordinates in -1 .. MaxTri
MaxTri == 1
\* the affordance mesh of getIntersectionPoints is shifted by -1 .. MaxShift
\* grid steps along each axis
MaxShift == 1
\* leg of the ROM tetrahedron of getIntersectionPoints, in grid steps
RomLeg == 6
\* grid steps per length unit in getIntersectionPoints: a vertex <<i, j, k>>
\* stands for (i, j, k) / GridPerUnit
GridPerUnit == 200
\* point sets handed to the fit stage have 0 .. SmallSamples or
\* RoundTripSamples .. MaxSamples points
SmallSamples == 7
MaxSamples == 24
\* conic parameter vectors handed to getRadius have 0 .. MaxParams entries
MaxParams == 8
\* a square root that is not rational is rounded down to a multiple of
\* 1 / SqrtScale (the model's stand-in for the rounding of sqrt)
SqrtScale == 4

-----------------------------------------------------------------------------
(* Integer vectors (Eigen::Vector3d / fcl::Vec3f on grid points).           *)

Abs(x) == IF x < 0 THEN -x ELSE x

Dot(u, v) == u[1] * v[1] + u[2] * v[2] + u[3] * v[3]

Cross(u, v) == << u[2] * v[3] - u[3] * v[2],
                  u[3] * v[1] - u[1] * v[3],
                  u[1] * v[2] - u[2] * v[1] >>

VSub(u, v) == << u[1] - v[1], u[2] - v[2], u[3] - v[3] >>

VAdd(u, v) == << u[1] + v[1], u[2] + v[2], u[3] + v[3] >>

\* rotation matrix (rows) times vector
MatVec(R, v) == << Dot(R[1], v), Dot(R[2], v), Dot(R[3], v) >>

\* object->getRotation() * vertex + object->getTranslation()
World(obj, v) == VAdd(MatVec(obj.rot, v), obj.trans)

\* one triangle of a mesh in world frame (TrianglePoints)
WorldTri(obj, k) ==
    LET fcltri == obj.tri_indices[k]
    IN  [ p1 |-> World(obj, obj.vertices[fcltri[1]]),
          p2 |-> World(obj, obj.vertices[fcltri[2]]),
          p3 |-> World(obj, obj.vertices[fcltri[3]]) ]

-----------------------------------------------------------------------------
(* Exact rationals standing for the doubles the code computes.              *)

RECURSIVE Gcd(_, _)
Gcd(a, b) == IF b = 0 THEN a ELSE Gcd(b, a % b)

\* n/d with both divided by g
Lowest(n, d, g) == << n \div g, d \div g >>

\* the rational n/d (d # 0) in lowest terms with a positive denominator
Q(n, d) ==
    IF d < 0 THEN Lowest(-n, -d, Gcd(Abs(n), Abs(d)))
    ELSE Lowest(n, d, Gcd(Abs(n), Abs(d)))

\* the result of a division by zero (an infinity or a NaN), and whatever is
\* computed from one
NonFinite == << 0, 0 >>

IsFinite(x) == x[2] # 0

I(n) == << n, 1 >>

QNeg(x) == IF IsFinite(x) THEN << -x[1], x[2] >> ELSE NonFinite

\* x + y over the least common denominator, g the gcd of the denominators
AddOver(x, y, g) ==
    Q(x[1] * (y[2] \div g) + y[1] * (x[2] \div g), (x[2] \div g) * y[2])

QAdd(x, y) ==
    IF IsFinite(x) /\ IsFinite(y) THEN AddOver(x, y, Gcd(x[2], y[2]))
    ELSE NonFinite

QSub(x, y) == QAdd(x, QNeg(y))

\* the product of two rationals in lowest terms
MulReduced(a, b) == Q(a[1] * b[1], a[2] * b[2])

QMul(x, y) ==
    IF IsFinite(x) /\ IsFinite(y)
    THEN MulReduced(Q(x[1], y[2]), Q(y[1], x[2]))
    ELSE NonFinite

\* x / y as IEEE doubles divide: no trap, a zero divisor gives a non-finite value
QDiv(x, y) ==
    IF IsFinite(x) /\ IsFinite(y) /\ y[1] # 0
    THEN Q(x[1] * y[2], x[2] * y[1]) ELSE NonFinite

\* comparisons of finite values
QLt(x, y) == x[1] * y[2] < y[1] * x[2]
QLe(x, y) == x[1] * y[2] <= y[1] * x[2]

\* std::min (a, b) is (b < a) ? b : a, std::max (a, b) is (a < b) ? b : a
QMin(x, y) == IF QLt(y, x) THEN y ELSE x
QMax(x, y) == IF QLt(x, y) THEN y ELSE x

\* vectors of rationals
QVec(v) == << I(v[1]), I(v[2]), I(v[3]) >>
QVSub(u, v) == << QSub(u[1], v[1]), QSub(u[2], v[2]), QSub(u[3], v[3]) >>
QVAdd(u, v) == << QAdd(u[1], v[1]), QAdd(u[2], v[2]), QAdd(u[3], v[3]) >>
QDot(u, v) == QAdd(QAdd(QMul(u[1], v[1]), QMul(u[2], v[2])), QMul(u[3], v[3]))
QScale(u, c) == << QMul(u[1], c), QMul(u[2], c), QMul(u[3], c) >>
VecFinite(u) == IsFinite(u[1]) /\ IsFinite(u[2]) /\ IsFinite(u[3])

-----------------------------------------------------------------------------
(* fcl2inequalities and is_inside.                                          *)

\* a faulty variant: the two edge vectors crossed in the other order
TriNormalSwapped(tri) == Cross(VSub(tri.p3, tri.p1), VSub(tri.p2, tri.p1))

\* (tri.p2 - tri.p1).cross (tri.p3 - tri.p1)
TriNormal(tri) == Cross(VSub(tri.p2, tri.p1), VSub(tri.p3, tri.p1))

\* Inequality ineq (A,b,N,V): one row per triangle of the ROM mesh
fcl2inequalities(obj) ==
    LET n == Len(obj.tri_indices)
        row(k) == TriNormal(WorldTri(obj, k))
    IN  [ A_ |-> [k \in 1..n |-> row(k)],
          b_ |-> [k \in 1..n |-> Dot(row(k), WorldTri(obj, k).p1)],
          N_ |-> [k \in 1..n |-> row(k)],
          V_ |-> [k \in 1..n |-> WorldTri(obj, k).p1 \o <<1>>] ]

\* eq = ineq.A_ * point - ineq.b_
IneqEq(q, x) == [k \in 1..Len(q.A_) |-> Dot(q.A_[k], x) - q.b_[k]]

\* false at the first row with eq(k) > 0.0, true otherwise
is_inside(q, x) == \A k \in 1..Len(q.A_) : ~(IneqEq(q, x)[k] > 0)

-----------------------------------------------------------------------------
(* Meshes the model draws its inputs from.                                  *)

Identity == << <<1, 0, 0>>, <<0, 1, 0>>, <<0, 0, 1>> >>
RotZ90   == << <<0, -1, 0>>, <<1, 0, 0>>, <<0, 0, 1>> >>
RotX90   == << <<1, 0, 0>>, <<0, 0, -1>>, <<0, 1, 0>> >>

Rotations == {Identity, RotZ90, RotX90}

\* tetrahedron with legs a along the axes, wound counter-clockwise seen from outside
TetraVertices(a) == << <<0, 0, 0>>, <<a, 0, 0>>, <<0, a, 0>>, <<0, 0, a>> >>
TetraTris == << <<1, 3, 2>>, <<1, 2, 4>>, <<1, 4, 3>>, <<2, 3, 4>> >>

\* axis-aligned box a x a x a, two triangles per face, wound counter-clockwise
\* seen from outside
BoxVertices(a) == << <<0, 0, 0>>, <<a, 0, 0>>, <<a, a, 0>>, <<0, a, 0>>,
                     <<0, 0, a>>, <<a, 0, a>>, <<a, a, a>>, <<0, a, a>> >>
BoxTris == << <<1, 4, 3>>, <<1, 3, 2>>,      \* z = 0
              <<5, 6, 7>>, <<5, 7, 8>>,      \* z = a
              <<1, 2, 6>>, <<1, 6, 5>>,      \* y = 0
              <<4, 8, 7>>, <<4, 7, 3>>,      \* y = a
              <<1, 5, 8>>, <<1, 8, 4>>,      \* x = 0
              <<2, 3, 7>>, <<2, 7, 6>> >>    \* x = a

\* the same triangle with its last two vertex indices exchanged
Flip(t) == << t[1], t[3], t[2] >>

\* the triangle list with the triangles in `which` wound the other way
Rewind(tris, which) ==
    [k \in 1..Len(tris) |-> IF k \in which THEN Flip(tris[k]) ELSE tris[k]]

Windings(tris) == { {}, {1}, 1..Len(tris) }

Translations == { <<0, 0, 0>>, <<1, 0, -1>> }

RomObjects ==
    { [vertices |-> TetraVertices(a), tri_indices |-> Rewind(TetraTris, w),
       rot |-> R, trans |-> t] :
         a \in 2..MaxSize, w \in Windings(TetraTris), R \in Rotations,
         t \in Translations }
    \cup
    { [vertices |-> BoxVertices(a), tri_indices |-> Rewind(BoxTris, w),
       rot |-> R, trans |-> t] :
         a \in 2..MaxSize, w \in Windings(BoxTris), R \in {Identity},
         t \in Translations }

QueryPoints == { <<x, y, z>> : x \in -1..MaxCoord, y \in -1..MaxCoord,
                               z \in -1..MaxCoord }

NoObject == [vertices |-> <<>>, tri_indices |-> <<>>, rot |-> Identity,
             trans |-> <<0, 0, 0>>]
NoIneq == [A_ |-> <<>>, b_ |-> <<>>, N_ |-> <<>>, V_ |-> <<>>]
NoTri == [p1 |-> <<0, 0, 0>>, p2 |-> <<0, 0, 0>>, p3 |-> <<0, 0, 0>>]

-----------------------------------------------------------------------------
(* Containment: fcl2inequalities, then is_inside on one point.              *)

InitInside ==
    /\ pc = "inside_start"
    /\ rom \in RomObjects
    /\ point \in QueryPoints
    /\ ineq = NoIneq
    /\ inside = FALSE
    /\ affordance = NoObject
    /\ romTri = NoTri /\ affTri = NoTri /\ ti = <<>>
    /\ colliding = FALSE /\ gip = <<>>
    /\ points = <<>> /\ params = <<>> /\ fit = <<>>

BuildInequalities ==
    /\ pc = "inside_start"
    /\ ineq' = fcl2inequalities(rom)
    /\ pc' = "inside_built"
    /\ UNCHANGED <<rom, affordance, point, inside, romTri, affTri, ti,
                   colliding, gip, points, params, fit>>

TestPoint ==
    /\ pc = "inside_built"
    /\ inside' = is_inside(ineq, point)
    /\ pc' = "inside_done"
    /\ UNCHANGED <<rom, affordance, point, ineq, romTri, affTri, ti,
                   colliding, gip, points, params, fit>>

NextInside == BuildInequalities \/ TestPoint

SpecInside == InitInside /\ [][NextInside]_vars

-----------------------------------------------------------------------------
(* C1.                                                                      *)

\* 3x3 determinant with rows u, v, w (expansion along the first row)
Det3(u, v, w) == u[1] * (v[2] * w[3] - v[3] * w[2])
               - u[2] * (v[1] * w[3] - v[3] * w[1])
               + u[3] * (v[1] * w[2] - v[2] * w[1])

\* signed distance (times twice the face area) of x to the plane of tri
FaceSide(tri, x) == Det3(VSub(tri.p2, tri.p1), VSub(tri.p3, tri.p1), VSub(x, tri.p1))

WorldVertices(obj) == { World(obj, obj.vertices[i]) : i \in 1..Len(obj.vertices) }

\* brute force: against every face, x is not strictly on the other side than
\* the mesh itself (for a convex mesh: x lies within it, boundary included)
Within(obj, x) ==
    \A k \in 1..Len(obj.tri_indices) : \A v \in WorldVertices(obj) :
        FaceSide(WorldTri(obj, k), x) * FaceSide(WorldTri(obj, k), v) >= 0

\* every face normal (p2-p1)x(p3-p1) points out of the mesh
OutwardWound(obj) ==
    \A k \in 1..Len(obj.tri_indices) : \A v \in WorldVertices(obj) :
        FaceSide(WorldTri(obj, k), v) <= 0

\* the rows are the face normals and offsets, and is_inside is "every row <= 0"
RowsAsStated ==
    /\ \A k \in 1..Len(ineq.A_) :
          LET t == WorldTri(rom, k)
          IN  /\ ineq.A_[k] = Cross(VSub(t.p2, t.p1), VSub(t.p3, t.p1))
              /\ ineq.b_[k] = Dot(ineq.A_[k], t.p1)
    /\ pc = "inside_done" =>
          (inside <=> \A k \in 1..Len(ineq.A_) : Dot(ineq.A_[k], point) - ineq.b_[k] <= 0)

\* C1 as stated: for every convex ROM mesh and every point, is_inside of the
\* mesh's inequalities is true iff the point lies within the mesh.
C1_AsStated ==
    pc = "inside_done" => (inside <=> Within(rom, point))

\* C1: for every convex ROM mesh whose triangles are wound so that
\* (p2-p1)x(p3-p1) points out of the mesh, is_inside is true iff the point lies
\* within the mesh; is_inside is true exactly when every row of A*p - b is
\* <= 0, row k of A being (p2-p1)x(p3-p1) and b(k) that normal dotted with p1.
C1_InsideIffWithin ==
    /\ pc # "inside_start" => RowsAsStated
    /\ (pc = "inside_done" /\ OutwardWound(rom)) => (inside <=> Within(rom, point))

\* a point on the boundary of an outward-wound mesh has been tested
C1_Witness ==
    /\ pc = "inside_done"
    /\ OutwardWound(rom)
    /\ inside
    /\ \E k \in 1..Len(ineq.A_) : IneqEq(ineq, point)[k] = 0
    /\ Len(rom.tri_indices) = 12

-----------------------------------------------------------------------------
(* TriangleIntersection.                                                    *)

\* boost::math::sign
Sign(x) == IF x < 0 THEN -1 ELSE IF x > 0 THEN 1 ELSE 0

\* signed distances of the vertices of tri to the plane C.x + C3 = 0
\* (multiplied by the length of C)
PlaneDists(C, C3, tri) ==
    << Dot(C, tri.p1) + C3, Dot(C, tri.p2) + C3, Dot(C, tri.p3) + C3 >>

\* a faulty variant: a vertex on the plane counts for either side
SameSideLoose(d) ==
    \/ (d[1] <= 0 /\ d[2] <= 0 /\ d[3] <= 0)
    \/ (d[1] >= 0 /\ d[2] >= 0 /\ d[3] >= 0)

\* all distances have the same sign and are not zero
SameSide(d) ==
    \/ (d[1] < 0 /\ d[2] < 0 /\ d[3] < 0)
    \/ (d[1] > 0 /\ d[2] > 0 /\ d[3] > 0)

\* fabs (x) < 1e-6 and isZero (1e-6) on a coefficient of romC or affC: these are
\* integers here, so the test is x = 0
Tiny(x) == x = 0

\* fabs (D[2]) < 1e-6 for D = Du / |Du|: Du is an integer vector with
\* |Du| < 10^6, so the test is Du[3] = 0
TinyDz(Du) == Du[3] = 0

\* The point p = (X, Y, Z) on the line of the two planes (C++ indices 0..2 are
\* 1..3 here).  A zero divisor gives NonFinite coordinates.  In the two branches
\* that divide by affC[2] first, a zero affC[2] makes romC[2]/affC[2] an infinity
\* or a NaN; the numerator romC3 - affC3*(romC[2]/affC[2]) is then an infinity
\* or a NaN too, so the quotient is never finite: NonFinite absorbs.
LinePoint(romC, romC3, affC, affC3, Du) ==
    LET r(i) == I(romC[i])
        a(i) == I(affC[i])
        r3 == I(romC3)
        a3 == I(affC3)
        zero == I(0)
    IN
    IF TinyDz(Du) THEN
        IF Tiny(affC[1]) /\ Tiny(affC[2]) THEN
            LET Z == QDiv(QNeg(a3), a(3))
                Y == zero
                X == QDiv(QSub(QAdd(QSub(QMul(QSub(a(3), r(3)), Z), QMul(r(2), Y)), a3), r3),
                          r(1))
            IN  << X, Y, Z >>
        ELSE IF Tiny(romC[1]) /\ Tiny(romC[2]) THEN
            LET Z == QDiv(QNeg(r3), r(3))
                Y == zero
                X == QDiv(QSub(QAdd(QSub(QMul(QSub(r(3), a(3)), Z), QMul(a(2), Y)), r3), a3),
                          a(1))
            IN  << X, Y, Z >>
        ELSE IF Tiny(affC[2]) /\ Tiny(romC[2]) THEN
            LET ratio == QDiv(r(3), a(3))
                Y == zero
                X == QDiv(QSub(r3, QMul(a3, ratio)), QSub(QMul(a(1), ratio), r(1)))
                Z == QDiv(QSub(QMul(QNeg(a(1)), X), a3), a(3))
            IN  << X, Y, Z >>
        ELSE
            LET ratio == QDiv(r(3), a(3))
                X == zero
                Y == QDiv(QSub(r3, QMul(a3, ratio)), QSub(QMul(a(2), ratio), r(2)))
                Z == QDiv(QSub(QMul(QNeg(a(2)), Y), a3), a(3))
            IN  << X, Y, Z >>
    ELSE
        LET Z == zero
        IN  IF Tiny(affC[1]) THEN
                LET X == QDiv(QAdd(QMul(QSub(QMul(a(3), r(2)), QMul(r(3), a(2))), Z),
                                   QSub(QMul(a3, r(2)), QMul(r3, a(2)))),
                              QSub(QMul(r(1), a(2)), QMul(a(1), r(2))))
                    Y == QDiv(QSub(QSub(QMul(QNeg(a(1)), X), QMul(a(3), Z)), a3), a(2))
                IN  << X, Y, Z >>
            ELSE
                LET Y == QDiv(QAdd(QMul(QSub(QMul(a(3), r(1)), QMul(r(3), a(1))), Z),
                                   QSub(QMul(a3, r(1)), QMul(r3, a(1)))),
                              QSub(QMul(r(2), a(1)), QMul(a(2), r(1))))
                    X == QDiv(QSub(QSub(QMul(QNeg(a(2)), Y), QMul(a(3), Z)), a3), a(1))
                IN  << X, Y, Z >>

\* D.dot (v - p) times |Du|: the parameter of v along L, in units of 1/|Du|
Projected(Du, v, p) == QDot(QVec(Du), QVSub(QVec(v), p))

\* a faulty variant: p1 stays in the first slot when it is the vertex alone
\* on its side
ReorderFirstKept(d, tri) ==
    IF Sign(d[1]) = Sign(d[2])
    THEN [ v |-> << tri.p1, tri.p3, tri.p2 >>, dist |-> << d[1], d[3], d[2] >> ]
    ELSE [ v |-> << tri.p1, tri.p2, tri.p3 >>, dist |-> << d[1], d[2], d[3] >> ]

\* The vertices of tri in the order the code puts them into projected[] and
\* dist[], given the signed distances d of p1, p2, p3 to the other plane.
Reorder(d, tri) ==
    IF Sign(d[1]) = Sign(d[2])
    THEN [ v |-> << tri.p1, tri.p3, tri.p2 >>, dist |-> << d[1], d[3], d[2] >> ]
    ELSE IF Sign(d[1]) = Sign(d[3])
    THEN [ v |-> << tri.p1, tri.p2, tri.p3 >>, dist |-> << d[1], d[2], d[3] >> ]
    ELSE [ v |-> << tri.p2, tri.p1, tri.p3 >>, dist |-> << d[2], d[1], d[3] >> ]

\* the two interpolated crossings, from projected[] and dist[]
Interpolated(projected, dist) ==
    << QAdd(projected[1],
            QDiv(QMul(QSub(projected[2], projected[1]), dist[1]),
                 QSub(dist[1], dist[2]))),
       QAdd(projected[2],
            QDiv(QMul(QSub(projected[3], projected[2]), dist[2]),
                 QSub(dist[2], dist[3]))) >>

\* projected[] and dist[] of the reordered vertices o
Crossings(o, Du, p) ==
    Interpolated([i \in 1..3 |-> Projected(Du, o.v[i], p)],
                 [i \in 1..3 |-> I(o.dist[i])])

\* the interval of tri along L
Interval(d, tri, Du, p) == Crossings(Reorder(d, tri), Du, p)

\* the condition under which the code returns a segment
IntervalsMeet(afft, romt) ==
    \/ /\ QLt(QMin(afft[1], afft[2]), QMax(romt[1], romt[2]))
       /\ QLt(QMin(romt[1], romt[2]), QMin(afft[1], afft[2]))
    \/ /\ QLt(QMin(romt[1], romt[2]), QMax(afft[1], afft[2]))
       /\ QLt(QMin(afft[1], afft[2]), QMin(romt[1], romt[2]))

\* p + D*(t) for t = s / |Du|: p + Du * s / |Du|^2
PointAt(p, Du, s) == QVAdd(p, QScale(QVec(Du), QDiv(s, I(Dot(Du, Du)))))

NoInterval == << NonFinite, NonFinite >>
NoPoint == << NonFinite, NonFinite, NonFinite >>

\* lines 420-429: the two points of the overlap, if the intervals meet
Segment(base, afft, romt) ==
    [ base EXCEPT
        !.afft = afft, !.romt = romt,
        !.res = IF IntervalsMeet(afft, romt)
                THEN << PointAt(base.p, base.D,
                                QMax(QMin(afft[1], afft[2]), QMin(romt[1], romt[2]))),
                        PointAt(base.p, base.D,
                                QMin(QMax(afft[1], afft[2]), QMax(romt[1], romt[2]))) >>
                ELSE <<>> ]

\* lines 356-418: the intervals of the two triangles along L.  An infinite or
\* NaN coordinate of p makes the three projected[] the same infinity or NaN;
\* their differences are NaN, and so are afft and romt: no comparison holds
OnLine(base, romT, affT, p) ==
    IF ~VecFinite(p) THEN [ base EXCEPT !.p = p ]
    ELSE Segment([ base EXCEPT !.p = p ],
                 Interval(base.a2r, affT, base.D, p),
                 Interval(base.r2a, romT, base.D, p))

\* lines 293-354: the two plane tests and the point on L.  With parallel
\* planes D.normalize () leaves a zero vector or NaNs, every projected[] is
\* then 0 or NaN, the distances are all 0, and the interpolation 0/0 makes
\* afft and romt NaN: no comparison holds
Planes(base, romT, affT) ==
    IF SameSide(base.a2r) THEN
        [ base EXCEPT !.exit = "rom_plane", !.r2a = << 0, 0, 0 >>,
                      !.affC = << 0, 0, 0 >>, !.affC3 = 0, !.D = << 0, 0, 0 >> ]
    ELSE IF SameSide(base.r2a) THEN
        [ base EXCEPT !.exit = "aff_plane", !.D = << 0, 0, 0 >> ]
    ELSE IF Dot(base.D, base.D) = 0 THEN base
    ELSE OnLine(base, romT, affT,
                LinePoint(base.romC, base.romC3, base.affC, base.affC3, base.D))

\* lines 283-318: the plane of each triangle, the signed distances of the
\* other triangle's vertices to it, and the direction of L
PlaneData(romT, affT, romC, affC, romC3, affC3) ==
    [ res |-> <<>>, exit |-> "end",
      a2r |-> PlaneDists(romC, romC3, affT), r2a |-> PlaneDists(affC, affC3, romT),
      romC |-> romC, romC3 |-> romC3, affC |-> affC, affC3 |-> affC3,
      D |-> Cross(affC, romC), p |-> NoPoint, afft |-> NoInterval,
      romt |-> NoInterval ]

\* C3 = (-C).dot (p1)
PlaneOffset(C, p1) == Dot(<< -C[1], -C[2], -C[3] >>, p1)

PlanesOf(romT, affT, romC, affC) ==
    PlaneData(romT, affT, romC, affC,
              PlaneOffset(romC, romT.p1), PlaneOffset(affC, affT.p1))

\* What one call computes.  exit names the return statement taken: "rom_plane"
\* (line 295), "aff_plane" (line 308) or "end" (line 429).  afft and romt are in
\* units of 1/|Du|, which leaves every comparison between them as in the code.
TriangleIntersection(romT, affT) ==
    Planes(PlanesOf(romT, affT, TriNormal(romT), TriNormal(affT)), romT, affT)

NoResult == [ res |-> <<>>, exit |-> "none", a2r |-> << 0, 0, 0 >>,
              r2a |-> << 0, 0, 0 >>, romC |-> << 0, 0, 0 >>, romC3 |-> 0,
              affC |-> << 0, 0, 0 >>, affC3 |-> 0, D |-> << 0, 0, 0 >>,
              p |-> NoPoint, afft |-> NoInterval, romt |-> NoInterval ]

-----------------------------------------------------------------------------
(* One call of TriangleIntersection on a pair of non-degenerate triangles.  *)

Tri(a, b, c) == [p1 |-> a, p2 |-> b, p3 |-> c]

RomTriangles ==
    { Tri(<<0, 0, 0>>, <<2, 0, 0>>, <<0, 2, 0>>),
      Tri(<<0, 0, 0>>, <<0, 2, 0>>, <<0, 0, 2>>),
      Tri(<<0, 0, 0>>, <<0, 0, 2>>, <<2, 0, 0>>),
      Tri(<<1, 0, 0>>, <<0, 1, 0>>, <<0, 0, 1>>),
      Tri(<<0, 0, 0>>, <<1, 1, 0>>, <<0, 0, 2>>),
      Tri(<<0, 0, 0>>, <<2, 0, 1>>, <<0, 2, 1>>) }

EdgeVectors ==
    { <<2, 0, 0>>, <<0, 2, 0>>, <<0, 0, 2>>, <<1, 1, 0>>, <<0, 1, 1>>,
      <<1, 0, 1>>, <<-1, 1, 0>>, <<1, 1, 1>>, <<0, -1, 2>>, <<2, 0, 1>>,
      <<0, 2, -1>> }

AffTriangles ==
    { Tri(o, VAdd(o, e), VAdd(o, f)) :
        o \in { <<x, y, z>> : x \in -1..MaxTri, y \in -1..MaxTri, z \in -1..MaxTri },
        e \in EdgeVectors, f \in EdgeVectors }

\* zero-area triangles are excluded (the data model's invariant)
Degenerate(t) == TriNormal(t) = << 0, 0, 0 >>

InitTri ==
    /\ pc = "tri_start"
    /\ romTri \in RomTriangles
    /\ affTri \in { t \in AffTriangles : ~Degenerate(t) }
    /\ ti = NoResult
    /\ rom = NoObject /\ affordance = NoObject
    /\ point = << 0, 0, 0 >> /\ ineq = NoIneq /\ inside = FALSE
    /\ colliding = FALSE /\ gip = <<>>
    /\ points = <<>> /\ params = <<>> /\ fit = <<>>

CallTriangleIntersection ==
    /\ pc = "tri_start"
    /\ ti' = TriangleIntersection(romTri, affTri)
    /\ pc' = "tri_done"
    /\ UNCHANGED <<rom, affordance, point, ineq, inside, romTri, affTri,
                   colliding, gip, points, params, fit>>

NextTri == CallTriangleIntersection

SpecTri == InitTri /\ [][NextTri]_vars

-----------------------------------------------------------------------------
(* C2.                                                                      *)

\* the sides of the plane of t on which the three vertices of u lie
Sides(t, u) == { Sign(FaceSide(t, u.p1)), Sign(FaceSide(t, u.p2)), Sign(FaceSide(t, u.p3)) }

StrictlyOneSide(t, u) == Sides(t, u) = {1} \/ Sides(t, u) = {-1}

\* C2: if the vertices of F are all strictly on one side of the plane of R, or
\* those of R all strictly on one side of the plane of F, the result is empty;
\* the two rejections are taken in exactly these cases, so a vertex at distance
\* zero never triggers one.
C2_SeparatedIsEmpty ==
    pc = "tri_done" =>
        /\ (StrictlyOneSide(romTri, affTri) \/ StrictlyOneSide(affTri, romTri))
              => ti.res = <<>>
        /\ ti.exit = "rom_plane" <=> StrictlyOneSide(romTri, affTri)
        /\ ti.exit = "aff_plane" <=>
              (~StrictlyOneSide(romTri, affTri) /\ StrictlyOneSide(affTri, romTri))

\* F touches the plane of R with a vertex and was not rejected for it; then R
\* was found strictly on one side of the plane of F
C2_Witness ==
    /\ pc = "tri_done"
    /\ ti.exit = "aff_plane"
    /\ 0 \in Sides(romTri, affTri)
    /\ Cardinality(Sides(romTri, affTri)) = 2
    /\ ti.res = <<>>

-----------------------------------------------------------------------------
(* C3.                                                                      *)

SameSegment(s, t) ==
    \/ s = <<>> /\ t = <<>>
    \/ /\ Len(s) = 2 /\ Len(t) = 2
       /\ { s[1], s[2] } = { t[1], t[2] }

\* C3: TriangleIntersection(R, F) and TriangleIntersection(F, R) return the
\* same result up to the order of the two endpoints.
C3_Symmetric ==
    pc = "tri_done" =>
        SameSegment(ti.res, TriangleIntersection(affTri, romTri).res)

-----------------------------------------------------------------------------
(* C10.                                                                     *)

Lower(t) == QMin(t[1], t[2])
Upper(t) == QMax(t[1], t[2])

\* both plane-side tests passed and the two intervals along L were computed
IntervalsComputed == pc = "tri_done" /\ ti.exit = "end" /\ IsFinite(ti.afft[1])

\* C10: once both plane-side tests pass, the result is the overlap of the two
\* intervals: two points at t1 = max of the lower bounds and t2 = min of the
\* upper bounds when t1 is below t2 (also when the two intervals share their
\* lower bound or are identical), and empty otherwise; its length is 0 or 2.
C10_OverlapDecides ==
    /\ pc = "tri_done" => Len(ti.res) \in {0, 2}
    /\ IntervalsComputed =>
          LET t1 == QMax(Lower(ti.afft), Lower(ti.romt))
              t2 == QMin(Upper(ti.afft), Upper(ti.romt))
          IN  IF QLt(t1, t2)
              THEN ti.res = << PointAt(ti.p, ti.D, t1), PointAt(ti.p, ti.D, t2) >>
              ELSE ti.res = <<>>

-----------------------------------------------------------------------------
(* geom::convexHull (hpp/intersect/geom/algorithms.h, not part of the       *)
(* sources at hand): an ordered closed polyline enclosing the input set,    *)
(* taken in the x-y plane, counter-clockwise from the leftmost point, the   *)
(* first point repeated at the end.                                         *)

Range(s) == { s[i] : i \in 1..Len(s) }

Cross2(o, a, b) ==
    QSub(QMul(QSub(a[1], o[1]), QSub(b[2], o[2])),
         QMul(QSub(a[2], o[2]), QSub(b[1], o[1])))

Dist2xy(a, b) ==
    QAdd(QMul(QSub(a[1], b[1]), QSub(a[1], b[1])),
         QMul(QSub(a[2], b[2]), QSub(a[2], b[2])))

LexLess(a, b) ==
    \/ QLt(a[1], b[1])
    \/ a[1] = b[1] /\ QLt(a[2], b[2])
    \/ a[1] = b[1] /\ a[2] = b[2] /\ QLt(a[3], b[3])

LeftMost(S) == CHOOSE a \in S : \A b \in S \ {a} : LexLess(a, b)

\* the corner after cur: every point is to its left or on the line; of the
\* points on the line, the farthest
NextCorner(S, cur) ==
    LET cands == { q \in S \ {cur} : \A r \in S : ~QLt(Cross2(cur, q, r), I(0)) }
        better(q, o) == \/ QLt(Dist2xy(cur, o), Dist2xy(cur, q))
                        \/ Dist2xy(cur, o) = Dist2xy(cur, q) /\ LexLess(q, o)
    IN  IF cands = {} THEN cur
        ELSE CHOOSE q \in cands : \A o \in cands \ {q} : better(q, o)

RECURSIVE HullWalk(_, _, _, _)
HullWalk(S, start, cur, fuel) ==
    LET nx == NextCorner(S, cur)
    IN  IF nx = start \/ fuel = 0 THEN << cur >>
        ELSE << cur >> \o HullWalk(S, start, nx, fuel - 1)

ConvexHull(pts) ==
    IF pts = <<>> THEN <<>>
    ELSE LET S == Range(pts)
             s0 == LeftMost(S)
         IN  HullWalk(S, s0, s0, Cardinality(S)) \o << s0 >>

-----------------------------------------------------------------------------
(* getIntersectionPoints.                                                   *)

\* affTris / romTris: the triangles of a mesh in world frame
WorldTris(obj) == [k \in 1..Len(obj.tri_indices) |-> WorldTri(obj, k)]

RECURSIVE Concat(_)
Concat(ss) == IF ss = <<>> THEN <<>> ELSE Head(ss) \o Concat(Tail(ss))

\* a faulty variant: the third vertex of a triangle is never tested
InsideVerticesTwo(q, affTris) ==
    Concat([k \in 1..Len(affTris) |->
        (IF is_inside(q, affTris[k].p1) THEN << QVec(affTris[k].p1) >> ELSE <<>>) \o
        (IF is_inside(q, affTris[k].p2) THEN << QVec(affTris[k].p2) >> ELSE <<>>)])

\* lines 501-513: the vertices of every affordance triangle that are inside the
\* ROM, in the order p1, p2, p3, once per triangle they belong to
InsideVertices(q, affTris) ==
    Concat([k \in 1..Len(affTris) |->
        (IF is_inside(q, affTris[k].p1) THEN << QVec(affTris[k].p1) >> ELSE <<>>) \o
        (IF is_inside(q, affTris[k].p2) THEN << QVec(affTris[k].p2) >> ELSE <<>>) \o
        (IF is_inside(q, affTris[k].p3) THEN << QVec(affTris[k].p3) >> ELSE <<>>)])

\* a faulty variant: returns early as soon as one of the two conditions holds
NoContactEither(isCollision, res) == ~isCollision \/ Len(res) = 0

\* !result.isCollision () && res.size () == 0
NoContact(isCollision, res) == ~isCollision /\ Len(res) = 0

\* lines 528-536: the points of every (affordance triangle, ROM triangle) pair,
\* affordance triangles in the outer loop
PairPoints(affTris, romTris) ==
    Concat([a \in 1..Len(affTris) |->
        Concat([r \in 1..Len(romTris) |->
            TriangleIntersection(romTris[r], affTris[a]).res])])

\* squared norm of hull[k+1] - hull[k]
NormSq(u, v) == QDot(QVSub(v, u), QVSub(v, u))

\* the code's 0.1 and 0.01, squared, in grid steps
MinIntervalSq == Q(GridPerUnit * GridPerUnit, 100)
NoiseSq == Q(GridPerUnit * GridPerUnit, 10000)

\* lines 540-545, on squared lengths: k runs over the edges in order
RECURSIVE MinDistSq(_, _, _)
MinDistSq(hull, k, minDist) ==
    IF k > Len(hull) - 1 THEN minDist
    ELSE LET n == NormSq(hull[k], hull[k + 1])
         IN  MinDistSq(hull, k + 1,
                       IF QLt(n, minDist) /\ QLt(NoiseSq, n) THEN n ELSE minDist)

RECURSIVE LeastSquareAbove(_, _, _)
LeastSquareAbove(num, den, n) ==
    IF n * n * den >= num THEN n ELSE LeastSquareAbove(num, den, n + 1)

\* a faulty variant: the quotient is rounded down
IntervalsFloor(normSq, minDistSq) ==
    LET q == QDiv(normSq, minDistSq)
        c == LeastSquareAbove(q[1], q[2], 0)
    IN  IF c * c * q[2] = q[1] THEN c ELSE c - 1

\* std::ceil (norm / minDist): the least n with n >= norm / minDist, that is
\* with n * n >= normSq / minDistSq
Intervals(normSq, minDistSq) ==
    LET q == QDiv(normSq, minDistSq)
    IN  LeastSquareAbove(q[1], q[2], 0)

\* lines 547-552: the points pushed for the edges j, j+1, ...
RECURSIVE HullRefined(_, _, _)
HullRefined(hull, j, minDistSq) ==
    IF j > Len(hull) - 1 THEN <<>>
    ELSE LET intervals == Intervals(NormSq(hull[j], hull[j + 1]), minDistSq)
             edge == QVSub(hull[j + 1], hull[j])
         IN  [i \in 1..intervals |->
                 QVAdd(hull[j], QScale(edge, Q(i, intervals)))]
             \o HullRefined(hull, j + 1, minDistSq)

\* the hull as the external routine may return it for an input with repeated
\* points (a shared vertex is pushed once per triangle): corner dup of a
\* polygon, if any, is listed twice in a row
WithRepeat(hull, dup) ==
    IF Len(hull) > 3 /\ dup \in 1..Len(hull)
    THEN SubSeq(hull, 1, dup) \o << hull[dup] >> \o SubSeq(hull, dup + 1, Len(hull))
    ELSE hull

\* lines 539-555: the resampling of the hull and the return at the end
Resampled(inner, accumulated, hull, minDist, pairs) ==
    [ res |-> IF Len(hull) > 2 THEN HullRefined(hull, 1, minDist)
              ELSE accumulated,
      exit |-> "end", inner |-> inner, accumulated |-> accumulated,
      pairs |-> pairs, hull |-> hull, hullRun |-> TRUE,
      minDist |-> IF Len(hull) > 2 THEN minDist ELSE MinIntervalSq,
      refined |-> Len(hull) > 2 ]

\* lines 539-545: minDist
Hulled(inner, accumulated, hull, pairs) ==
    Resampled(inner, accumulated, hull, MinDistSq(hull, 1, MinIntervalSq), pairs)

\* line 538: the hull of the accumulated points
Accumulated(inner, accumulated, dup, pairs) ==
    Hulled(inner, accumulated, WithRepeat(ConvexHull(accumulated), dup), pairs)

\* lines 514-536: the early return and the triangle pairs
Collided(inner, affTris, romTris, isCollision, dup) ==
    IF NoContact(isCollision, inner) THEN
        [ res |-> <<>>, exit |-> "no_collision", inner |-> inner,
          accumulated |-> <<>>, pairs |-> 0, hull |-> <<>>, hullRun |-> FALSE,
          minDist |-> MinIntervalSq, refined |-> FALSE ]
    ELSE
        Accumulated(inner, inner \o PairPoints(affTris, romTris), dup,
                    Len(affTris) * Len(romTris))

\* What one call computes.  exit names the return statement taken:
\* "no_collision" (line 525) or "end" (line 555).
getIntersectionPoints(romObj, affObj, isCollision, dup) ==
    Collided(InsideVertices(fcl2inequalities(romObj), WorldTris(affObj)),
             WorldTris(affObj), WorldTris(romObj), isCollision, dup)

NoGip == [ res |-> <<>>, exit |-> "none", inner |-> <<>>, accumulated |-> <<>>,
           pairs |-> 0, hull |-> <<>>, hullRun |-> FALSE,
           minDist |-> MinIntervalSq, refined |-> FALSE ]

-----------------------------------------------------------------------------
(* One call of getIntersectionPoints.                                       *)

AffShapes ==
    { [ vertices |-> << <<0, 0, 0>>, <<2, 0, 0>>, <<0, 2, 0>> >>,
        tri_indices |-> << <<1, 2, 3>> >> ],
      [ vertices |-> << <<0, 0, 0>>, <<2, 0, 0>>, <<2, 2, 0>>, <<0, 2, 0>> >>,
        tri_indices |-> << <<1, 2, 3>>, <<1, 3, 4>> >> ],
      [ vertices |-> << <<0, 0, 0>>, <<4, 0, 0>>, <<1, 1, 0>>, <<0, 4, 0>> >>,
        tri_indices |-> << <<1, 2, 3>>, <<1, 3, 4>> >> ],
      [ vertices |-> << <<0, 0, 0>>, <<5, 0, 0>>, <<5, 1, 0>>, <<0, 3, 0>> >>,
        tri_indices |-> << <<1, 2, 3>>, <<1, 3, 4>> >> ],
      [ vertices |-> << <<0, 0, 0>>, <<2, 0, 1>>, <<0, 2, 1>> >>,
        tri_indices |-> << <<1, 2, 3>> >> ] }

AffObjects ==
    { [ vertices |-> sh.vertices, tri_indices |-> sh.tri_indices,
        rot |-> Identity, trans |-> << x, y, z >> ] :
        sh \in AffShapes, x \in -1..MaxShift, y \in -1..MaxShift,
        z \in -1..MaxShift }

OrchRom == [ vertices |-> TetraVertices(RomLeg), tri_indices |-> TetraTris,
             rot |-> Identity, trans |-> << 0, 0, 0 >> ]

\* a segment found by TriangleIntersection is a crossing of the two surfaces,
\* which the broad phase reports
Crossing(romObj, affObj) == PairPoints(WorldTris(affObj), WorldTris(romObj)) # <<>>

\* the axis-aligned bounding boxes of the two meshes meet; the broad phase
\* reports no collision between meshes whose boxes are apart
BoxesMeet(romObj, affObj) ==
    \A i \in 1..3 :
        /\ \E u \in WorldVertices(romObj), v \in WorldVertices(affObj) : u[i] <= v[i]
        /\ \E u \in WorldVertices(romObj), v \in WorldVertices(affObj) : v[i] <= u[i]

InitOrch ==
    /\ pc = "gip_start"
    /\ rom = OrchRom
    /\ affordance \in AffObjects
    /\ colliding \in { c \in BOOLEAN : /\ Crossing(rom, affordance) => c
                                       /\ c => BoxesMeet(rom, affordance) }
    /\ gip = NoGip
    /\ point = << 0, 0, 0 >> /\ ineq = NoIneq /\ inside = FALSE
    /\ romTri = NoTri /\ affTri = NoTri /\ ti = NoResult
    /\ points = <<>> /\ params = <<>> /\ fit = <<>>

CallGetIntersectionPoints ==
    /\ pc = "gip_start"
    /\ \E dup \in 0..2 :
          gip' = getIntersectionPoints(rom, affordance, colliding, dup)
    /\ pc' = "gip_done"
    /\ UNCHANGED <<rom, affordance, point, ineq, inside, romTri, affTri, ti,
                   colliding, points, params, fit>>

NextOrch == CallGetIntersectionPoints

SpecOrch == InitOrch /\ [][NextOrch]_vars

-----------------------------------------------------------------------------
(* C4.                                                                      *)

\* the affordance vertices (world frame) that is_inside accepts
InsideAffVertices ==
    { v \in WorldVertices(affordance) : is_inside(fcl2inequalities(rom), v) }

\* C4 as stated: every affordance vertex for which is_inside holds is present
\* in the returned point sequence.
C4_AsStated ==
    pc = "gip_done" => \A v \in InsideAffVertices : QVec(v) \in Range(gip.res)

\* C4: every affordance vertex for which is_inside holds is part of
\* the point set handed to the convex-hull step, ahead of every triangle-pair
\* point, and of the returned sequence whenever the hull has at most 2 points;
\* with a larger hull the returned sequence is the resampled hull only.
C4_InsideVerticesAccumulated ==
    pc = "gip_done" =>
        /\ \A v \in InsideAffVertices :
              /\ QVec(v) \in Range(gip.inner)
              /\ gip.exit = "end"
              /\ QVec(v) \in Range(gip.accumulated)
              /\ Len(gip.hull) <= 2 => QVec(v) \in Range(gip.res)
        /\ gip.exit = "end" =>
              SubSeq(gip.accumulated, 1, Len(gip.inner)) = gip.inner
        /\ (gip.exit = "end" /\ Len(gip.hull) > 2) =>
              gip.res = HullRefined(gip.hull, 1, gip.minDist)

\* an inside vertex was accumulated, and the resampled hull that was returned
\* does not contain it
C4_Witness ==
    /\ pc = "gip_done"
    /\ Len(gip.hull) > 2
    /\ \E v \in InsideAffVertices :
          QVec(v) \in Range(gip.accumulated) /\ QVec(v) \notin Range(gip.res)

-----------------------------------------------------------------------------
(* C5.                                                                      *)

\* C5: the call always returns; with no collision reported and no affordance
\* vertex inside the ROM it returns an empty result without any triangle-pair,
\* hull or resampling step; otherwise it runs the triangle-pair step over all
\* pairs and returns at the end, also when the accumulated set is empty.
C5_AlwaysReturns ==
    pc = "gip_done" =>
        LET none == ~colliding /\ \A v \in WorldVertices(affordance) : ~Within(rom, v)
        IN  /\ gip.exit \in { "no_collision", "end" }
            /\ none => /\ gip.exit = "no_collision"
                       /\ gip.res = <<>>
                       /\ gip.pairs = 0
                       /\ ~gip.hullRun /\ ~gip.refined
            /\ ~none => /\ gip.exit = "end"
                        /\ gip.pairs = Len(affordance.tri_indices) * Len(rom.tri_indices)
                        /\ gip.hullRun
                        /\ gip.accumulated = <<>> => gip.res = <<>>

\* a collision was reported, no point was found, and the call returned at the end
C5_Witness ==
    /\ pc = "gip_done"
    /\ colliding
    /\ gip.exit = "end"
    /\ gip.accumulated = <<>>
    /\ gip.hull = <<>>

-----------------------------------------------------------------------------
(* C6.                                                                      *)

HullEdgesSq(hull) == { NormSq(hull[k], hull[k + 1]) : k \in 1..(Len(hull) - 1) }

\* the shortest hull edge longer than 0.01, and 0.1 if that is shorter (squared)
ResampleIntervalSq(hull) ==
    LET S == { n \in HullEdgesSq(hull) : QLt(NoiseSq, n) } \cup { MinIntervalSq }
    IN  CHOOSE m \in S : \A n \in S : QLe(m, n)

\* C6: with a hull of more than 2 points, the returned boundary walks every
\* hull edge (the end point of every edge of non-zero length is returned) and
\* no two consecutive returned points are farther apart than m.
C6_NoLongSegment ==
    (pc = "gip_done" /\ Len(gip.hull) > 2) =>
        LET m == ResampleIntervalSq(gip.hull)
        IN  /\ \A i \in 1..(Len(gip.res) - 1) :
                  QLe(NormSq(gip.res[i], gip.res[i + 1]), m)
            /\ \A k \in 1..(Len(gip.hull) - 1) :
                  gip.hull[k] # gip.hull[k + 1] => gip.hull[k + 1] \in Range(gip.res)

\* a resampled hull with a zero-length edge, an edge shorter than 0.01 and an
\* edge that was cut into several intervals
C6_Witness ==
    /\ pc = "gip_done"
    /\ Len(gip.hull) > 2
    /\ I(0) \in HullEdgesSq(gip.hull)
    /\ \E n \in HullEdgesSq(gip.hull) : QLt(I(0), n) /\ QLt(n, NoiseSq)
    /\ \E n \in HullEdgesSq(gip.hull) : QLt(ResampleIntervalSq(gip.hull), n)

-----------------------------------------------------------------------------
(* Square roots, means and determinants of rationals.                       *)

\* the greatest k in lo .. hi with k * k <= n (lo * lo <= n < (hi + 1)^2)
RECURSIVE SqrtFloor(_, _, _)
SqrtFloor(n, lo, hi) ==
    IF lo >= hi THEN lo
    ELSE LET mid == (lo + hi + 1) \div 2
         IN  IF mid * mid <= n THEN SqrtFloor(n, mid, hi)
             ELSE SqrtFloor(n, lo, mid - 1)

ISqrt(n) == SqrtFloor(n, 0, IF n < 46340 THEN n ELSE 46340)

IsSquare(n) == ISqrt(n) * ISqrt(n) = n

\* sqrt (x): NaN for a negative x, exact for the square of a rational,
\* rounded down to a multiple of 1 / SqrtScale otherwise
SqrtQ(x) ==
    IF ~IsFinite(x) \/ x[1] < 0 THEN NonFinite
    ELSE IF IsSquare(x[1]) /\ IsSquare(x[2]) THEN Q(ISqrt(x[1]), ISqrt(x[2]))
    ELSE Q(ISqrt((x[1] * SqrtScale * SqrtScale) \div x[2]), SqrtScale)

RECURSIVE QSum(_)
QSum(s) == IF s = <<>> THEN I(0) ELSE QAdd(Head(s), QSum(Tail(s)))

\* Eigen's mean () of a column: sum / size; of no coefficient, 0 / 0
QMean(s) == QDiv(QSum(s), I(Len(s)))

QDet3(u, v, w) ==
    QAdd(QSub(QMul(u[1], QSub(QMul(v[2], w[3]), QMul(v[3], w[2]))),
              QMul(u[2], QSub(QMul(v[1], w[3]), QMul(v[3], w[1])))),
         QMul(u[3], QSub(QMul(v[1], w[2]), QMul(v[2], w[1]))))

QAbs(x) == IF IsFinite(x) /\ x[1] < 0 THEN QNeg(x) ELSE x

\* a < b on doubles: false when either side is a NaN
QLtNaN(x, y) == IsFinite(x) /\ IsFinite(y) /\ QLt(x, y)

-----------------------------------------------------------------------------
(* The fit stage: getRadius, directCircle, directEllipse, projectToPlane.   *)

\* tau as atan (atan) / 2 + quarterTurns * pi / 2
Tau(a, k) == [ atan |-> a, quarterTurns |-> k ]
TauZero == Tau(I(0), 0)

NoFit == [ op |-> "none", outcome |-> "none", res |-> <<>>,
           source |-> "caller", evec |-> <<>>,
           centroid |-> << NonFinite, NonFinite >>, tau |-> TauZero,
           normal |-> << 0, 0, 0 >>,
           planeCentroid |-> << NonFinite, NonFinite, NonFinite >> ]

\* params.size () < 6
TooFewParams(v) == Len(v) < 6

\* a faulty variant: the centre is taken with the wrong sign
CircleCentroidPlus(v) == << QDiv(v[4], I(2)), QDiv(v[5], I(2)) >>

\* centroid << params(3)/(-2.0), params(4)/(-2.0)
CircleCentroid(v) == << QDiv(v[4], I(-2)), QDiv(v[5], I(-2)) >>

\* lines 53-81.  swapEig: the order in which EigenSolver lists the two
\* eigenvalues of M is not specified
EllipseRadius(v, swapEig) ==
    LET A == v[1]  B == v[2]  C == v[3]  D == v[4]  E == v[5]  F == v[6]
        half(x) == QDiv(x, I(2))
        detM0 == QDet3(<< F, half(D), half(E) >>, << half(D), A, half(B) >>,
                       << half(E), half(B), C >>)
        detM == QSub(QMul(A, C), QMul(half(B), half(B)))
        root == SqrtQ(QAdd(QMul(half(QSub(A, C)), half(QSub(A, C))),
                           QMul(half(B), half(B))))
        hi == QAdd(half(QAdd(A, C)), root)
        lo == QSub(half(QAdd(A, C)), root)
        eval == IF swapEig THEN << lo, hi >> ELSE << hi, lo >>
        lambda == IF QLtNaN(QAbs(QSub(eval[1], C)), QAbs(QSub(eval[1], A)))
                  THEN << eval[2], eval[1] >> ELSE << eval[1], eval[2] >>
        radii == << SqrtQ(QDiv(QNeg(detM0), QMul(detM, lambda[1]))),
                    SqrtQ(QDiv(QNeg(detM0), QMul(detM, lambda[2]))) >>
        den == QSub(QMul(I(4), QMul(A, C)), QMul(B, B))
        tau0 == QDiv(B, QSub(A, C))
    IN  [ NoFit EXCEPT
            !.op = "getRadius", !.outcome = "returned", !.res = radii,
            !.centroid = << QDiv(QSub(QMul(B, E), QMul(I(2), QMul(C, D))), den),
                            QDiv(QSub(QMul(B, D), QMul(I(2), QMul(A, E))), den) >>,
            !.tau = Tau(tau0, IF QLtNaN(radii[1], radii[2]) THEN -1 ELSE 0) ]

\* lines 82-86
CircleRadius(v) ==
    LET centroid == CircleCentroid(v)
    IN  [ NoFit EXCEPT
            !.op = "getRadius", !.outcome = "returned",
            !.res = << SqrtQ(QSub(QAdd(QMul(centroid[1], centroid[1]),
                                       QMul(centroid[2], centroid[2])), v[6])) >>,
            !.centroid = centroid, !.tau = TauZero ]

getRadius(v, swapEig) ==
    IF TooFewParams(v)
    THEN [ NoFit EXCEPT !.op = "getRadius", !.outcome = "WrongParameterCount" ]
    ELSE IF v[2] = I(0) THEN CircleRadius(v)
    ELSE EllipseRadius(v, swapEig)

\* the x and the y column of XY
XCol(pts) == [i \in 1..Len(pts) |-> I(pts[i][1])]
YCol(pts) == [i \in 1..Len(pts) |-> I(pts[i][2])]

\* lines 176-181 of directCircle
FitCentroid(pts) == << QMean(XCol(pts)), QMean(YCol(pts)) >>

MeanRadius(pts, centroid) ==
    QMean([i \in 1..Len(pts) |->
        SqrtQ(QAdd(QMul(QSub(I(pts[i][1]), centroid[1]), QSub(I(pts[i][1]), centroid[1])),
                   QMul(QSub(I(pts[i][2]), centroid[2]), QSub(I(pts[i][2]), centroid[2]))))])

\* lines 185-187
CircleParams(centroid, radius) ==
    << I(1), I(0), I(1), QMul(I(-2), centroid[1]), QMul(I(-2), centroid[2]),
       QSub(QAdd(QMul(centroid[1], centroid[1]), QMul(centroid[2], centroid[2])),
            QMul(radius, radius)) >>

\* directCircle has no test of points.size ().  Of no point, mean () is an
\* eigen_assert failure in a build with assertions and 0/0 otherwise.
directCircle(pts, assertions) ==
    IF Len(pts) = 0 /\ assertions
    THEN [ outcome |-> "eigen_assert", params |-> <<>> ]
    ELSE LET centroid == FitCentroid(pts)
         IN  [ outcome |-> "returned",
               params |-> CircleParams(centroid, MeanRadius(pts, centroid)) ]

\* cond of one eigenvector: 4xz - y^2
EllipticCond(v) == QSub(QMul(I(4), QMul(v[1], v[3])), QMul(v[2], v[2]))

\* lines 135-142: A0 after the loop over the three eigenvectors (columns of
\* evec).  resize () to another size reallocates and leaves every coefficient
\* uninitialised, so only the column written last holds an eigenvector; the
\* columns before it hold whatever the new block held (garbage).
SelectA0(evec, garbage) ==
    LET valid == { i \in 1..3 : QLtNaN(I(0), EllipticCond(evec[i])) }
        last == IF valid = {} THEN 0 ELSE CHOOSE i \in valid : \A j \in valid : j <= i
    IN  [i \in 1..last |-> IF i = last THEN evec[i] ELSE garbage]

\* directEllipse has no test of points.size ().  evec: the eigenvectors the
\* EigenSolver returns for M (all NaN when S3 is singular); lin: the three linear coefficients T*A0 after
\* recentring.  The vector is given up to the positive factor 1/A.norm ().
directEllipse(pts, assertions, evec, lin, garbage) ==
    IF Len(pts) = 0 /\ assertions
    THEN [ outcome |-> "eigen_assert", params |-> <<>>, evec |-> <<>> ]
    ELSE LET A0 == SelectA0(evec, garbage)
         IN  IF Len(A0) * 3 < 3
             THEN [ outcome |-> "NoValidEllipse", params |-> <<>>,
                    evec |-> evec ]
             ELSE [ outcome |-> "returned", params |-> A0[1] \o lin,
                    evec |-> evec ]

\* lines 193-199 of projectToPlane
TooFewForPlane(pts) == Len(pts) < 3

\* projectToPlane: normal is the eigenvector of the smallest eigenvalue as the
\* EigenSolver returns it, up to its length; the loop at line 249 never runs
projectToPlane(pts, normal) ==
    IF TooFewForPlane(pts)
    THEN [ NoFit EXCEPT !.op = "projectToPlane", !.outcome = "TooFewPoints" ]
    ELSE [ NoFit EXCEPT !.op = "projectToPlane", !.outcome = "returned",
             !.normal = normal,
             !.planeCentroid = << QMean(XCol(pts)), QMean(YCol(pts)),
                                  QMean([i \in 1..Len(pts) |-> I(pts[i][3])]) >> ]

-----------------------------------------------------------------------------
(* The fit stage as a state machine: a caller hands a point set to          *)
(* directCircle, directEllipse or projectToPlane, or a parameter vector to  *)
(* getRadius; the vector a fit returns goes to getRadius next.              *)

\* the lattice points of the circle of radius 5 round the origin, by angle
CircleOffsets ==
    << << 5, 0 >>, << 4, 3 >>, << 3, 4 >>, << 0, 5 >>, << -3, 4 >>, << -4, 3 >>,
       << -5, 0 >>, << -4, -3 >>, << -3, -4 >>, << 0, -5 >>, << 3, -4 >>,
       << 4, -3 >> >>

CircleCentres == { << 0, 0 >>, << 2, -1 >> }

SampleCounts == 0..SmallSamples \cup (MaxSamples - 4)..MaxSamples

\* n samples of the circle round c: every stride-th lattice point from the
\* start-th on, m of them, over and over
Samples(c, start, stride, m, n) ==
    [i \in 1..n |->
        LET o == CircleOffsets[((start + stride * ((i - 1) % m)) % 12) + 1]
        IN  << c[1] + o[1], c[2] + o[2], 0 >>]

PointSets ==
    { Samples(c, start, stride, m, n) :
        c \in CircleCentres, start \in 0..11, stride \in 1..3, m \in 3..12,
        n \in SampleCounts }

BaseParams ==
    { << I(1), I(0), I(1), I(-4), I(2), I(-20) >>,
      << I(6), I(4), I(3), I(0), I(0), I(-14) >>,
      << I(5), I(-6), I(5), I(0), I(0), I(-8) >>,
      << I(1), I(0), I(1), I(0), I(0), I(4) >> }

ParamVectors ==
    { SubSeq(v \o [i \in 1..(MaxParams - 6) |-> I(i)], 1, n) :
        v \in BaseParams, n \in 0..MaxParams }

NaNVec == << NonFinite, NonFinite, NonFinite >>

EvecChoices ==
    LET e1 == << I(1), I(0), I(1) >>
        e2 == << I(2), I(1), I(1) >>
        h == << I(1), I(0), I(-1) >>
        p == << I(0), I(1), I(0) >>
        z == << I(1), I(0), I(0) >>
    IN  { << e1, h, p >>, << h, e1, p >>, << h, p, e1 >>, << h, p, z >>,
          << e1, h, e2 >>, << NaNVec, NaNVec, NaNVec >> }

LinChoices == { << I(0), I(0), I(-25) >>, << I(-4), I(2), I(-20) >> }

GarbageChoices == { << I(0), I(0), I(0) >>, << I(3), I(1), I(-2) >> }

NormalChoices == { << 0, 0, 1 >>, << 0, 0, -1 >> }

InitFit ==
    /\ pc = "fit_start"
    /\ \/ points \in PointSets /\ params = <<>>
       \/ points = <<>> /\ params \in ParamVectors
    /\ fit = NoFit
    /\ rom = NoObject /\ affordance = NoObject
    /\ point = << 0, 0, 0 >> /\ ineq = NoIneq /\ inside = FALSE
    /\ romTri = NoTri /\ affTri = NoTri /\ ti = NoResult
    /\ colliding = FALSE /\ gip = NoGip

FitUnchanged ==
    UNCHANGED <<rom, affordance, point, ineq, inside, romTri, affTri, ti,
                colliding, gip, points>>

\* what a call of a fit leaves behind: the vector when it returns one, and
\* the eigenvectors the solver of directEllipse produced (evec)
Fitted(op, r, evec) ==
    /\ fit' = [ NoFit EXCEPT !.op = op, !.outcome = r.outcome,
                            !.evec = evec ]
    /\ params' = r.params
    /\ pc' = IF r.outcome = "returned" THEN "fit_params" ELSE "fit_done"

CallDirectCircle ==
    /\ pc = "fit_start"
    /\ \E assertions \in BOOLEAN :
          Fitted("directCircle", directCircle(points, assertions), <<>>)
    /\ FitUnchanged

EllipseFitted(r) == Fitted("directEllipse", r, r.evec)

CallDirectEllipse ==
    /\ pc = "fit_start"
    /\ \E assertions \in BOOLEAN, evec \in EvecChoices, lin \in LinChoices,
          garbage \in GarbageChoices :
          EllipseFitted(directEllipse(points, assertions, evec, lin, garbage))
    /\ FitUnchanged

CallProjectToPlane ==
    /\ pc = "fit_start"
    /\ \E normal \in NormalChoices : fit' = projectToPlane(points, normal)
    /\ pc' = "fit_done"
    /\ UNCHANGED params
    /\ FitUnchanged

CallGetRadius ==
    /\ pc \in { "fit_start", "fit_params" }
    /\ \E swapEig \in BOOLEAN :
          fit' = [ getRadius(params, swapEig) EXCEPT
                     !.source = IF pc = "fit_params" THEN fit.op ELSE "caller" ]
    /\ pc' = "fit_done"
    /\ UNCHANGED params
    /\ FitUnchanged

NextFit ==
    \/ CallDirectCircle
    \/ CallGetRadius
    \/ CallProjectToPlane
    \/ CallDirectEllipse

SpecFit == InitFit /\ [][NextFit]_vars

-----------------------------------------------------------------------------
(* C7.                                                                      *)

GetRadiusDone == pc = "fit_done" /\ fit.op = "getRadius"

\* C7: getRadius raises WrongParameterCount whenever its parameter vector
\* does not have exactly 6 entries, and only then.
C7_WrongCountRejected ==
    GetRadiusDone =>
        (fit.outcome = "WrongParameterCount" <=> Len(params) # 6)

-----------------------------------------------------------------------------
(* C8.                                                                      *)

FitCalled ==
    /\ pc \in { "fit_params", "fit_done" }
    /\ fit.op \in { "directCircle", "directEllipse", "projectToPlane" }

\* the least number of points the fit needs: 3 for a plane, 6 for a conic
MinPoints(op) == IF op = "projectToPlane" THEN 3 ELSE 6

\* C8: a plane fit given fewer than 3 points and a conic fit (directCircle,
\* directEllipse) given fewer than 6 points end in TooFewPoints.
C8_UndersizedRejected ==
    (FitCalled /\ Len(points) < MinPoints(fit.op)) =>
        fit.outcome = "TooFewPoints"

-----------------------------------------------------------------------------
(* C9.                                                                      *)

RoundTripDone ==
    /\ pc = "fit_done" /\ fit.op = "getRadius" /\ fit.source = "directCircle"

\* the radius of the circle the samples are taken from
SampledRadius == ISqrt(CircleOffsets[1][1] * CircleOffsets[1][1]
                        + CircleOffsets[1][2] * CircleOffsets[1][2])

\* every point of the set lies exactly on the circle of radius r round c
OnCircle(pts, c, r) ==
    \A i \in 1..Len(pts) :
        (pts[i][1] - c[1]) * (pts[i][1] - c[1])
          + (pts[i][2] - c[2]) * (pts[i][2] - c[2]) = r * r

\* the mean of the points is c
MeanIs(pts, c) ==
    /\ QSum(XCol(pts)) = I(Len(pts) * c[1])
    /\ QSum(YCol(pts)) = I(Len(pts) * c[2])

Recovered(c, r) ==
    /\ params = << I(1), I(0), I(1), I(-2 * c[1]), I(-2 * c[2]),
                   I(c[1] * c[1] + c[2] * c[2] - r * r) >>
    /\ fit.outcome = "returned"
    /\ fit.centroid = << I(c[1]), I(c[2]) >>
    /\ fit.res = << I(r) >>
    /\ fit.tau = TauZero

\* C9 as stated: for any 20 or more points exactly on a circle (c, r),
\* directCircle gives (1, 0, 1, -2cx, -2cy, cx^2 + cy^2 - r^2) and getRadius
\* of that vector is centroid c, the single radius r and tau 0.
C9_AsStated ==
    RoundTripDone =>
        \A c \in CircleCentres :
            (Len(points) >= 20 /\ OnCircle(points, c, SampledRadius))
                => Recovered(c, SampledRadius)

\* C9: for any 20 or more points exactly on a circle (c, r) whose mean is c,
\* directCircle gives (1, 0, 1, -2cx, -2cy, cx^2 + cy^2 - r^2) and getRadius
\* of that vector is centroid c, the single radius r and tau 0.
C9_RoundTripBalanced ==
    RoundTripDone =>
        \A c \in CircleCentres :
            (Len(points) >= 20 /\ OnCircle(points, c, SampledRadius)
               /\ MeanIs(points, c))
                => Recovered(c, SampledRadius)

C9_Witness ==
    /\ RoundTripDone
    /\ \E c \in CircleCentres :
          /\ Len(points) >= 20 /\ OnCircle(points, c, SampledRadius)
          /\ MeanIs(points, c)
          /\ Recovered(c, SampledRadius)
          /\ c # << 0, 0 >>

-----------------------------------------------------------------------------
(* C11.                                                                     *)

\* the call went through the case split for p: both plane tests passed and
\* the two planes are not parallel
LinePointComputed == pc = "tri_done" /\ ti.exit = "end" /\ Dot(ti.D, ti.D) # 0

\* C.p + C3 = 0
OnPlane(C, C3, p) == QAdd(QDot(QVec(C), p), I(C3)) = I(0)

\* C11: for non-degenerate triangles with non-parallel planes the case split
\* for p = (X, Y, Z) divides by no zero coefficient (every coordinate of p is
\* finite) and p satisfies both plane equations.
C11_LinePointOnBothPlanes ==
    LinePointComputed =>
        /\ VecFinite(ti.p)
        /\ OnPlane(ti.romC, ti.romC3, ti.p)
        /\ OnPlane(ti.affC, ti.affC3, ti.p)


-----------------------------------------------------------------------------
(* C12.                                                                     *)

\* directEllipse got as far as the eigenvectors
EllipseSolved ==
    /\ pc \in { "fit_params", "fit_done" }
    /\ fit.op = "directEllipse"
    /\ fit.outcome \in { "returned", "NoValidEllipse" }

\* the eigenvectors of the call that satisfy 4AC - B^2 > 0
EllipticColumns ==
    { i \in 1..3 : QLtNaN(I(0), EllipticCond(fit.evec[i])) }

\* C12: directEllipse ends in NoValidEllipse exactly when none of the three
\* eigenvectors satisfies 4AC - B^2 > 0, and when it returns, the first three
\* coefficients (A, B, C) are those of an eigenvector that satisfies it,
\* whichever of the three positions holds that eigenvector.
C12_EllipticEigenvectorReturned ==
    EllipseSolved =>
        /\ (fit.outcome = "NoValidEllipse") <=> (EllipticColumns = {})
        /\ fit.outcome = "returned" =>
              \E i \in EllipticColumns : SubSeq(params, 1, 3) = fit.evec[i]


-----------------------------------------------------------------------------
(* C13.                                                                     *)

\* C13: the resampling interval m (minDist after the loop over the hull
\* edges) is never smaller than 0.1, whatever the lengths of the hull edges.
C13_IntervalNotBelowFloor ==
    (pc = "gip_done" /\ gip.refined) => QLe(MinIntervalSq, gip.minDist)


-----------------------------------------------------------------------------
(* C14.                                                                     *)

\* the three signed distances are not all of one sign (boost::math::sign:
\* -1, 0 or 1)
MixedSigns(d) == ~(Sign(d[1]) = Sign(d[2]) /\ Sign(d[2]) = Sign(d[3]))

\* the vertex in the middle slot is alone on its side: its distance differs
\* in sign from the distances in the two outer slots
LoneInMiddle(o) ==
    Sign(o.dist[2]) # Sign(o.dist[1]) /\ Sign(o.dist[2]) # Sign(o.dist[3])

\* the slots hold the three vertices of tri, each with its own distance to
\* the plane C.x + C3 = 0
SlotsOf(o, tri, C, C3) ==
    /\ { o.v[i] : i \in 1..3 } = { tri[f] : f \in { "p1", "p2", "p3" } }
    /\ \A i \in 1..3 : o.dist[i] = Dot(C, o.v[i]) + C3

\* neither interpolation divides by zero
DividesByNonZero(o) == o.dist[1] # o.dist[2] /\ o.dist[2] # o.dist[3]

MiddleSlot(d, tri, C, C3) ==
    MixedSigns(d) =>
        /\ LoneInMiddle(Reorder(d, tri))
        /\ SlotsOf(Reorder(d, tri), tri, C, C3)
        /\ DividesByNonZero(Reorder(d, tri))

\* the call got past both plane tests, to the reordering of the vertices
ReorderReached == pc = "tri_done" /\ ti.exit = "end"

\* C14: for each triangle whose signed distances to the other plane have
\* mixed signs, the reordering puts the vertex that is alone on its side into
\* the middle slot (projected[1], dist[1]), for every sign pattern that gets
\* past the plane tests, so each interpolated crossing uses one vertex from
\* each side, neither divides by zero, and with a finite p both interval
\* bounds are finite.
C14_LoneVertexInMiddle ==
    ReorderReached =>
        /\ MiddleSlot(ti.a2r, affTri, ti.romC, ti.romC3)
        /\ MiddleSlot(ti.r2a, romTri, ti.affC, ti.affC3)
        /\ (MixedSigns(ti.a2r) /\ VecFinite(ti.p)) =>
               IsFinite(ti.afft[1]) /\ IsFinite(ti.afft[2])
        /\ (MixedSigns(ti.r2a) /\ VecFinite(ti.p)) =>
               IsFinite(ti.romt[1]) /\ IsFinite(ti.romt[2])

\* a pair past the plane tests in which aff has its lone vertex at p1 (moved
\* to the middle slot) and rom has its lone vertex at p3, with a vertex of
\* aff on rom's plane, and both intervals computed
C14_Witness ==
    /\ ReorderReached
    /\ Sign(ti.a2r[1]) # Sign(ti.a2r[2]) /\ Sign(ti.a2r[1]) # Sign(ti.a2r[3])
    /\ 0 \in { ti.a2r[2], ti.a2r[3] }
    /\ Reorder(ti.a2r, affTri).v[2] = affTri.p1
    /\ Sign(ti.r2a[1]) = Sign(ti.r2a[2]) /\ Sign(ti.r2a[3]) # Sign(ti.r2a[1])
    /\ Reorder(ti.r2a, romTri).v[2] = romTri.p3
    /\ IsFinite(ti.afft[1]) /\ IsFinite(ti.romt[1])

=============================================================================
